---- MODULE Spec2Model ----
(***************************************************************************)
(* Transaction lifecycle and synchronization surface of the Ypy binding    *)
(* (src/src/y_doc.rs, src/src/y_text.rs).                                  *)
(*                                                                         *)
(* Two documents (client ids 1 and 2) each own an engine store.  The       *)
(* binding keeps, per document, a weak reference `txn` to the current      *)
(* transaction handle.  Handles are reference counted objects: the ones    *)
(* in `handles` are those the caller keeps a strong reference to; a        *)
(* handle nobody holds is dropped at the end of the call that used it,     *)
(* and dropping an uncommitted handle commits it.                          *)
(***************************************************************************)
EXTENDS Integers, Sequences, FiniteSets, TLC

VARIABLES
    store,      \* store[d]: integrated blocks of document d's engine store
    pending,    \* pending[d]: blocks received whose dependencies are missing
    txn,        \* txn[d]: YDocInner.txn: None, a weak reference that no longer
                \* resolves (Stale), or the identity of the handle it resolves to
    handles,    \* handles[h]: the handle object with identity h the caller holds
    observers,  \* observers[d]: after-transaction observers registered on d
    last,       \* what the last call was and what it returned
    reports,    \* the change report an after-transaction callback has kept, if any
    okind,      \* the OffsetKind the document of the texts was constructed with
    ytext,      \* ytext[t]: the YText object t: its variant and what it holds
    subs,       \* subs[t]: the observer registries of the engine text behind t
    dirty,      \* dirty[t]: changes the open mutation context has made to t:
                \* none, one, or several (2)
    fired,      \* the observer callbacks the last commit called, how often, and
                \* which of them failed
    pyerr,      \* the interpreter's error indicator when the last call returned
    event,      \* the YTextEvent the last commit gave a callback, as the callback
                \* left it and kept it, if there is one
    made        \* what the last YDoc(offset_kind = ...) made

\* What the calls of YDoc and of the protocol functions never touch.
ext == <<reports, okind, ytext, subs, dirty, fired, pyerr, event, made>>

\* The texts and their observers.
textvars == <<okind, ytext, subs, dirty, fired, pyerr, event, made>>

\* What the calls on YText objects never touch.
docvars == <<store, pending, txn, handles, observers, reports, okind, made>>

\* What only the callbacks of text observers touch.
cbvars == <<pyerr, event>>

vars == <<store, pending, txn, handles, observers, last, reports, okind, ytext,
          subs, dirty, fired, pyerr, event, made>>

(* ------------------------------ bounds -------------------------------- *)
MaxOps == 3          \* blocks the clients create, together
MaxHandles == 2      \* handles the caller holds at once
MaxObservers == 1    \* after-transaction observers per document

MaxLen == 2          \* characters and embeds a text holds
MaxSubs == 2         \* observers registered on a text at once
MaxReads == 2        \* reads a callback makes of the event it is given
MaxOffset == 2       \* offsets and lengths passed to the texts

Docs == {1, 2}       \* a document's client id is its name
\* What each client types, one character per block.
Typed == [c \in Docs |-> IF c = 1 THEN <<"a", "b", "c", "d">> ELSE <<"x", "y", "z", "w">>]
HandleIds == 1..MaxHandles
NoId == <<0, 0>>
None == 0            \* txn = None
Stale == -1          \* txn = Some(weak), and the handle object is gone
Temp == 0            \* a handle object that lives only inside one call

(* ------------------------------ engine -------------------------------- *)
\* The state vector: per client, the number of blocks integrated.
StateVector(S) == [c \in Docs |-> Cardinality({i \in S : i.id[1] = c})]

ZeroVector == [c \in Docs |-> 0]

\* The text in document order: a block follows its origin; blocks with the
\* same origin are ordered by client id.
RECURSIVE TextFrom(_, _, _)
TextFrom(S, p, c) ==
    IF c \notin Docs THEN <<>>
    ELSE LET kids == {i \in S : i.origin = p /\ i.id[1] = c}
         IN  (IF kids = {} THEN <<>>
              ELSE LET i == CHOOSE k \in kids : TRUE
                   IN  <<i.ch>> \o TextFrom(S, i.id, 1))
             \o TextFrom(S, p, c + 1)

\* Root text "t" read as a string (a sequence of characters).
Content(S) == TextFrom(S, NoId, 1)

RECURSIVE LastFrom(_, _)
LastFrom(S, p) ==
    LET kids == {i \in S : i.origin = p}
    IN  IF kids = {} THEN p
        ELSE LastFrom(S, (CHOOSE k \in kids :
                             \A j \in kids : j.id[1] <= k.id[1]).id)

\* The id of the last block of the text, NoId when the text is empty.
LastId(S) == LastFrom(S, NoId)

\* A block can be integrated when it is the next one of its client and its
\* origin is already there.
Ready(S, i) ==
    /\ i.id[2] = StateVector(S)[i.id[1]]
    /\ (i.origin = NoId \/ \E j \in S : j.id = i.origin)

\* Integrates every block of P that is or becomes ready; returns the store
\* and what stays pending.  Blocks the store already holds are dropped.
RECURSIVE Integrate(_, _)
Integrate(S, P) ==
    LET news == {i \in P : ~ \E j \in S : j.id = i.id}
        rdy  == {i \in news : Ready(S, i)}
    IN  IF rdy = {} THEN [store |-> S, pending |-> news]
        ELSE Integrate(S \cup rdy, news \ rdy)

\* The blocks of S that state vector sv does not cover.
EncodeDiff(S, sv) == {i \in S : i.id[2] >= sv[i.id[1]]}

(* --------------------------- wire format v1 --------------------------- *)
NoBytes == [kind |-> "none", items |-> {}, clocks |-> ZeroVector]
JunkBytes == [kind |-> "junk", items |-> {}, clocks |-> ZeroVector]

EncodeUpdateV1(items) == [kind |-> "update", items |-> items, clocks |-> ZeroVector]
EncodeStateVectorV1(sv) == [kind |-> "sv", items |-> {}, clocks |-> sv]

\* Decoding fails on bytes of any other shape.
DecodeUpdateV1(bytes) ==
    IF bytes.kind = "update" THEN [ok |-> TRUE, items |-> bytes.items]
    ELSE [ok |-> FALSE, items |-> {}]

DecodeStateVectorV1(bytes) ==
    IF bytes.kind = "sv" THEN [ok |-> TRUE, clocks |-> bytes.clocks]
    ELSE [ok |-> FALSE, clocks |-> ZeroVector]

(* ------------------------- transaction handles ------------------------ *)
NoHandle == [doc |-> 0, st |-> "free"]

\* The engine store of d is exclusively borrowed by an open mutation context.
EngineBusy(d) == \E h \in HandleIds : handles[h].doc = d /\ handles[h].st = "open"

\* A store that lets any number of mutation contexts be opened at once.
TryTransactMutUnguarded(d) == TRUE

\* Doc::transact_mut: opens a mutation context unless one is already open,
\* in which case it panics.
TryTransactMut(d) == ~ EngineBusy(d)

FreeIds == {h \in HandleIds : handles[h].st = "free"}

\* The identity of a newly allocated handle object the caller will hold.
FreshId == CHOOSE h \in FreeIds : \A g \in FreeIds : h <= g

\* Weak::upgrade succeeds while somebody holds the handle object.
Upgrade(w) == w \in HandleIds

\* begin_transaction without the look at the cached handle.
BeginTransactionUncached(d) ==
    IF ~ TryTransactMut(d)
    THEN [ret |-> "panic", h |-> Temp, new |-> FALSE]
    ELSE [ret |-> "ok", h |-> Temp, new |-> TRUE]

\* YDocInner::begin_transaction: the cached handle when it still resolves
\* and is not committed, a new mutation context otherwise (h = Temp until
\* somebody keeps it).
begin_transaction(d) ==
    IF txn[d] # None /\ Upgrade(txn[d]) /\ handles[txn[d]].st # "committed"
    THEN [ret |-> "ok", h |-> txn[d], new |-> FALSE]
    ELSE IF ~ TryTransactMut(d)
    THEN [ret |-> "panic", h |-> Temp, new |-> FALSE]
    ELSE [ret |-> "ok", h |-> Temp, new |-> TRUE]

\* The cached weak reference once the call that got r from
\* begin_transaction(d) has returned without anybody keeping a new handle.
CachedAfter(d, r) == IF r.new THEN [txn EXCEPT ![d] = Stale] ELSE txn

\* A wrapper whose drop commits the handle whoever else holds it.
DropCommitsAlways(r) == 1

\* Commits caused by dropping the call's own reference to the handle: a
\* new handle nobody else holds is dropped, and dropping commits it.
DropCommits(r) == IF r.new THEN 1 ELSE 0

\* Every registered after-transaction observer is called once per cleanup
\* event, and the engine raises one cleanup event per commit.
Fires(d, commits) == commits * observers[d]

\* What a call returns and causes: its result, the handle it worked through
\* (reused: one that was already live), the commits it caused, the observer
\* calls those commits made, the bytes it returned or was given, and whether
\* it repeats the call before it (same operation, document and argument,
\* both returning).
Result(op, d, ret, h, reused, commits, bytes) ==
    [op |-> op, doc |-> d, ret |-> ret, h |-> h, reused |-> reused,
     commits |-> commits, fires |-> Fires(d, commits), bytes |-> bytes,
     again |-> /\ last.op = op /\ last.doc = d /\ last.ret = "ok" /\ ret = "ok"
               /\ (op = "apply_update" => last.bytes = bytes)]

(* ------------------------- pure protocol steps ------------------------ *)
\* YTransaction::diff_v1 on a store: None (NoBytes) exports everything.
diff_v1(S, vector) ==
    IF vector.kind = "none"
    THEN [ret |-> "ok", bytes |-> EncodeUpdateV1(EncodeDiff(S, ZeroVector))]
    ELSE LET sv == DecodeStateVectorV1(vector)
         IN  IF sv.ok
             THEN [ret |-> "ok", bytes |-> EncodeUpdateV1(EncodeDiff(S, sv.clocks))]
             ELSE [ret |-> "DecodeError", bytes |-> NoBytes]

\* A merge that takes a block the store already holds for a new one of the
\* same client.
ApplyV1Again(S, P, bytes) ==
    LET u == DecodeUpdateV1(bytes)
        r == Integrate(S, P \cup u.items)
        dup == {i \in u.items : i \in S}
    IN  IF ~ u.ok THEN [ret |-> "DecodeError", store |-> S, pending |-> P]
        ELSE [ret |-> "ok", pending |-> r.pending,
              store |-> r.store \cup
                  {[i EXCEPT !.id = <<i.id[1], StateVector(S)[i.id[1]]>>] : i \in dup}]

\* YTransaction::apply_v1 on a store: decode the whole payload, then merge.
apply_v1(S, P, bytes) ==
    LET u == DecodeUpdateV1(bytes)
    IN  IF ~ u.ok THEN [ret |-> "DecodeError", store |-> S, pending |-> P]
        ELSE LET r == Integrate(S, P \cup u.items)
             IN  [ret |-> "ok", store |-> r.store, pending |-> r.pending]

\* encode_state_vector's use of its handle: YTransaction::state_vector_v1.
encode_state_vector(S) == EncodeStateVectorV1(StateVector(S))

\* An export that passes no vector on to diff_v1.
EncodeStateAsUpdateNoVector(S, vector) == diff_v1(S, NoBytes)

\* encode_state_as_update's use of its handle: diff_v1(vector).
encode_state_as_update(S, vector) == diff_v1(S, vector)

\* An import that drops the result of apply_v1 and returns Ok.
ApplyUpdateSwallow(S, P, diff) == [apply_v1(S, P, diff) EXCEPT !.ret = "ok"]

\* An import that decodes the payload and never merges it.
ApplyUpdateUnmerged(S, P, diff) ==
    [apply_v1(S, P, diff) EXCEPT !.store = S, !.pending = P]

\* apply_update's use of its handle: apply_v1(diff)?, then Ok.
apply_update(S, P, diff) == apply_v1(S, P, diff)

\* Text::push through a transaction: one block appended after the last one.
NewBlock(S, c) ==
    [id |-> <<c, StateVector(S)[c]>>, ch |-> Typed[c][StateVector(S)[c] + 1],
     origin |-> LastId(S)]

\* Typing stops once the clients have created MaxOps blocks between them.
CanEdit(d) == StateVector(store[1])[1] + StateVector(store[2])[2] < MaxOps

\* The state vectors a caller can pass: any vector, None, or bytes that
\* are no state vector.
Vectors == {EncodeStateVectorV1(sv) : sv \in [Docs -> 0..MaxOps]} \cup {NoBytes, JunkBytes}

\* The vectors worth passing to document d: a clock beyond the blocks d
\* holds of a client selects the same blocks as the clock that equals them.
VectorsFor(d) ==
    {v \in Vectors : v.kind = "sv" =>
        \A c \in Docs : v.clocks[c] <= StateVector(store[d])[c]}

\* The update payloads a caller can pass: the bytes the last call returned
\* or was given, or bytes that are no update.
Inbox == ({last.bytes} \ {NoBytes}) \cup {JunkBytes}

(* ------------------------------- YText -------------------------------- *)
\* The offset kinds YDoc::new can configure.
OffsetKinds == {"Bytes", "Utf16", "Utf32"}

\* The characters typed into texts: "a", and "E" for a character such as
\* e-acute: two bytes in UTF-8, one code unit in UTF-16.  "obj" is an embed.
Chars == {"a", "E"}
Embed == "obj"

\* How far one element reaches in each unit; an embed counts one.
Width(kind, c) == IF kind = "Bytes" /\ c = "E" THEN 2 ELSE 1

RECURSIVE Measure(_, _)
Measure(kind, str) ==
    IF str = <<>> THEN 0 ELSE Width(kind, Head(str)) + Measure(kind, Tail(str))

\* The number of elements before offset index, -1 when index is past the
\* end or inside a character.
PosAt(kind, str, index) ==
    LET ks == {k \in 0..Len(str) : Measure(kind, SubSeq(str, 1, k)) = index}
    IN  IF ks = {} THEN -1 ELSE CHOOSE k \in ks : TRUE

\* String::insert_str / String::drain: byte offsets, which must lie on
\* character boundaries inside the string.
StringInsert(str, index, chunk) ==
    LET k == PosAt("Bytes", str, index)
    IN  IF k < 0 THEN [ret |-> "panic", s |-> str]
        ELSE [ret |-> "ok", s |-> SubSeq(str, 1, k) \o chunk \o SubSeq(str, k + 1, Len(str))]

StringDrain(str, index, length) ==
    LET k == PosAt("Bytes", str, index)
        e == PosAt("Bytes", str, index + length)
    IN  IF k < 0 \/ e < 0 THEN [ret |-> "panic", s |-> str]
        ELSE [ret |-> "ok", s |-> SubSeq(str, 1, k) \o SubSeq(str, e + 1, Len(str))]

\* Text::insert / Text::remove_range of the engine: offsets in the unit the
\* document was configured with.
TextInsert(kind, str, index, chunk) ==
    LET k == PosAt(kind, str, index)
    IN  IF k < 0 THEN [ret |-> "panic", s |-> str]
        ELSE [ret |-> "ok", s |-> SubSeq(str, 1, k) \o chunk \o SubSeq(str, k + 1, Len(str))]

TextRemoveRange(kind, str, index, length) ==
    LET k == PosAt(kind, str, index)
        e == PosAt(kind, str, index + length)
    IN  IF k < 0 \/ e < 0 THEN [ret |-> "panic", s |-> str]
        ELSE [ret |-> "ok", s |-> SubSeq(str, 1, k) \o SubSeq(str, e + 1, Len(str))]

\* Text::to_string skips embeds; Text::len is the content length, which the
\* engine counts in the unit the document was configured with.
TextToString(str) == SelectSeq(str, LAMBDA c : c # Embed)
TextLen(kind, str) == Measure(kind, str)

TextIds == {1, 2}

\* YText::new(init): a Preliminary text.
YText_new(init) == [variant |-> "Prelim", s |-> init]

\* YDoc::get_text on a new document: an Integrated, empty root text.
get_text == [variant |-> "Integrated", s |-> <<>>]

\* YText::prelim
prelim(v) == v.variant = "Prelim"

\* YText::__str__, __len__, to_json
YText_str(v) == IF v.variant = "Integrated" THEN TextToString(v.s) ELSE v.s
YText_len(v) == IF v.variant = "Integrated" THEN TextLen(okind, v.s) ELSE Measure("Bytes", v.s)
to_json(v) == <<"quote">> \o YText_str(v) \o <<"quote">>

\* Attaching a text to a container of a document: a Preliminary text becomes
\* an Integrated one holding the same characters; an Integrated one is
\* refused.
attach(v) ==
    IF v.variant = "Prelim"
    THEN [ret |-> "ok", v |-> [variant |-> "Integrated", s |-> v.s]]
    ELSE [ret |-> "StateError", v |-> v]

\* What YText::parse_attrs makes of the attributes passed: None passed,
\* every value converted, or a value that cannot be converted.
Attributes == {"None", "Ok", "Err"}

\* An insert that, given attributes, does not look at the variant.
InsertAnyVariant(v, index, chunk, attributes) ==
    IF attributes = "Err" THEN [ret |-> "TypeError", v |-> v]
    ELSE LET r == IF v.variant = "Integrated" THEN TextInsert(okind, v.s, index, chunk)
                  ELSE StringInsert(v.s, index, chunk)
         IN  [ret |-> r.ret, v |-> [v EXCEPT !.s = r.s]]

\* YText::insert
insert(v, index, chunk, attributes) ==
    IF attributes = "Ok"
    THEN IF v.variant = "Integrated"
         THEN LET r == TextInsert(okind, v.s, index, chunk)
              IN  [ret |-> r.ret, v |-> [v EXCEPT !.s = r.s]]
         ELSE [ret |-> "TypeError", v |-> v]
    ELSE IF attributes = "Err" THEN [ret |-> "TypeError", v |-> v]
    ELSE LET r == IF v.variant = "Integrated" THEN TextInsert(okind, v.s, index, chunk)
                  ELSE StringInsert(v.s, index, chunk)
         IN  [ret |-> r.ret, v |-> [v EXCEPT !.s = r.s]]

\* A push that leaves a local string behind, whatever the text was.
PushDetached(v, chunk) == [ret |-> "ok", v |-> [variant |-> "Prelim", s |-> v.s \o chunk]]

\* YText::push
push(v, chunk) == [ret |-> "ok", v |-> [v EXCEPT !.s = @ \o chunk]]

\* YText::delete
delete(v, index, length) ==
    LET r == IF v.variant = "Integrated" THEN TextRemoveRange(okind, v.s, index, length)
             ELSE StringDrain(v.s, index, length)
    IN  [ret |-> r.ret, v |-> [v EXCEPT !.s = r.s]]

\* What py_into_any makes of the object to embed: a value, or nothing.
Embeds == {"Ok", "Err"}

\* YText::insert_embed
insert_embed(v, index, embed, attributes) ==
    IF v.variant = "Integrated"
    THEN IF embed = "Err" THEN [ret |-> "TypeError", v |-> v]
         ELSE LET r == TextInsert(okind, v.s, index, <<Embed>>)
              IN  [ret |-> r.ret, v |-> [v EXCEPT !.s = r.s]]
    ELSE [ret |-> "TypeError", v |-> v]

\* YText::format; formatting changes no character.
format(v, index, length, attributes) ==
    IF attributes = "Ok"
    THEN IF v.variant = "Integrated"
         THEN [ret |-> TextRemoveRange(okind, v.s, index, length).ret, v |-> v]
         ELSE [ret |-> "TypeError", v |-> v]
    ELSE [ret |-> "TypeError", v |-> v]

\* The observers of an engine text: one registry for observe, one for
\* observe_deep, each holding the subscription ids it has handed out. An id
\* is the engine's choice; a registry hands out no id it still holds.
NoSubs == [shallow |-> {}, deep |-> {}]
SubIds == 0..(MaxSubs - 1)

\* An observe whose subscription is gone when it returns.
ObserveForgets(v, reg, deep, sub) ==
    IF v.variant = "Integrated"
    THEN [ret |-> "ok", id |-> sub, reg |-> reg]
    ELSE [ret |-> "TypeError", id |-> 0, reg |-> reg]

\* YText::observe, the engine handing out sub: the subscription id returned
\* and the registries afterwards.
observe(v, reg, deep, sub) ==
    IF v.variant = "Integrated" /\ deep
    THEN [ret |-> "ok", id |-> sub, reg |-> [reg EXCEPT !.deep = @ \cup {sub}]]
    ELSE IF v.variant = "Integrated"
    THEN [ret |-> "ok", id |-> sub, reg |-> [reg EXCEPT !.shallow = @ \cup {sub}]]
    ELSE [ret |-> "TypeError", id |-> 0, reg |-> reg]

\* YText::unobserve: Text::unobserve, on the registry of observe.
unobserve(v, reg, subscription_id) ==
    IF v.variant = "Integrated"
    THEN [ret |-> "ok", reg |-> [reg EXCEPT !.shallow = @ \ {subscription_id}]]
    ELSE [ret |-> "TypeError", reg |-> reg]

\* The registrations on text t: which registry, which subscription id.
Registered(t) ==
    {[t |-> t, deep |-> FALSE, id |-> i] : i \in subs[t].shallow}
        \cup {[t |-> t, deep |-> TRUE, id |-> i] : i \in subs[t].deep}

\* One more change to a text by the open mutation context; a Preliminary
\* text is no part of any document.
Touch(t, r) ==
    IF r.ret = "ok" /\ ~ prelim(ytext[t])
    THEN [dirty EXCEPT ![t] = IF @ = 0 THEN 1 ELSE 2] ELSE dirty

(* --------------------------- YDoc(offset_kind) ------------------------ *)
\* The offset_kind tokens offered: a stem, separators, a number, as
\* sequences of characters.
Stems == {<<"u", "t", "f">>, <<"U", "T", "F">>, <<"U", "t", "f">>,
          <<"b", "y", "t", "e", "s">>, <<"B", "Y", "T", "E", "S">>, <<>>}
Separators == {<<>>, <<"-">>, <<"_">>, <<" ">>, <<"-", "-">>}
Numbers == {<<"8">>, <<"1", "6">>, <<"3", "2">>, <<"6", "4">>, <<>>}
Tokens == {a \o b \o c : a \in Stems, b \in Separators, c \in Numbers}

\* offset_kind: Option<String>
OffsetArgs == {[some |-> FALSE, v |-> <<>>]} \cup {[some |-> TRUE, v |-> k] : k \in Tokens}

\* str::to_lowercase on the letters the tokens use
Uppers == <<"U", "T", "F", "B", "Y", "E", "S">>
Lowers == <<"u", "t", "f", "b", "y", "e", "s">>
to_lowercase(str) ==
    [i \in 1..Len(str) |->
        IF \E k \in 1..Len(Uppers) : Uppers[k] = str[i]
        THEN Lowers[CHOOSE k \in 1..Len(Uppers) : Uppers[k] = str[i]]
        ELSE str[i]]

\* str::replace(from, "") for a from of one character
replace(str, from) == SelectSeq(str, LAMBDA c : c # from)

NotMade == [arg |-> [some |-> FALSE, v |-> <<>>], ret |-> "none", offset_kind |-> "none"]

\* A constructor that matches the token as it was passed.
YDocNewAsPassed(offset_kind) ==
    IF ~ offset_kind.some THEN [arg |-> offset_kind, ret |-> "ok", offset_kind |-> "Bytes"]
    ELSE CASE offset_kind.v = <<"u", "t", "f", "8">> ->
                [arg |-> offset_kind, ret |-> "ok", offset_kind |-> "Bytes"]
           [] offset_kind.v = <<"u", "t", "f", "1", "6">> ->
                [arg |-> offset_kind, ret |-> "ok", offset_kind |-> "Utf16"]
           [] offset_kind.v = <<"u", "t", "f", "3", "2">> ->
                [arg |-> offset_kind, ret |-> "ok", offset_kind |-> "Utf32"]
           [] OTHER -> [arg |-> offset_kind, ret |-> "ValueError", offset_kind |-> "none"]

\* YDoc::new(client_id, offset_kind, skip_gc): the document made, or the
\* error raised and no document.
YDoc_new(offset_kind) ==
    IF ~ offset_kind.some THEN [arg |-> offset_kind, ret |-> "ok", offset_kind |-> "Bytes"]
    ELSE LET clean_offset == replace(to_lowercase(offset_kind.v), "-")
         IN  CASE clean_offset = <<"u", "t", "f", "8">> ->
                    [arg |-> offset_kind, ret |-> "ok", offset_kind |-> "Bytes"]
               [] clean_offset = <<"u", "t", "f", "1", "6">> ->
                    [arg |-> offset_kind, ret |-> "ok", offset_kind |-> "Utf16"]
               [] clean_offset = <<"u", "t", "f", "3", "2">> ->
                    [arg |-> offset_kind, ret |-> "ok", offset_kind |-> "Utf32"]
               [] OTHER -> [arg |-> offset_kind, ret |-> "ValueError", offset_kind |-> "none"]

(* -------------------------------- Init -------------------------------- *)
Init ==
    /\ store = [d \in Docs |-> {}]
    /\ pending = [d \in Docs |-> {}]
    /\ txn = [d \in Docs |-> None]
    /\ handles = [h \in HandleIds |-> NoHandle]
    /\ observers = [d \in Docs |-> 0]
    /\ last = [op |-> "new", doc |-> 1, ret |-> "ok", h |-> Temp, reused |-> FALSE,
               commits |-> 0, fires |-> 0, bytes |-> NoBytes, again |-> FALSE]
    /\ reports = <<>>
    /\ okind \in OffsetKinds
    /\ ytext = [t \in TextIds |-> IF t = 1 THEN YText_new(<<>>) ELSE get_text]
    /\ subs = [t \in TextIds |-> NoSubs]
    /\ dirty = [t \in TextIds |-> 0]
    /\ fired = {}
    /\ pyerr = <<>>
    /\ event = <<>>
    /\ made = NotMade

(* ------------------------------- actions ------------------------------ *)
\* YDoc::begin_transaction; the caller keeps the returned handle.
BeginTransaction(d) ==
    LET r == begin_transaction(d)
    IN  /\ IF r.ret = "panic"
           THEN /\ last' = Result("begin_transaction", d, "panic", Temp, FALSE, 0, NoBytes)
                /\ UNCHANGED <<txn, handles>>
           ELSE IF r.new
           THEN /\ FreeIds # {}
                /\ handles' = [handles EXCEPT ![FreshId] = [doc |-> d, st |-> "open"]]
                /\ txn' = [txn EXCEPT ![d] = FreshId]
                /\ last' = Result("begin_transaction", d, "ok", FreshId, FALSE, 0, NoBytes)
           ELSE /\ last' = Result("begin_transaction", d, "ok", r.h, TRUE, 0, NoBytes)
                /\ UNCHANGED <<txn, handles>>
        /\ UNCHANGED <<store, pending, observers>>

\* The caller lets go of its reference to h: the handle object is dropped,
\* an uncommitted one commits, and weak references to it stop resolving.
Release(h) ==
    /\ handles[h].st # "free"
    /\ handles' = [handles EXCEPT ![h] = NoHandle]
    /\ txn' = [d \in Docs |-> IF txn[d] = h THEN Stale ELSE txn[d]]
    /\ last' = Result("release", handles[h].doc, "ok", h, FALSE,
                      IF handles[h].st = "open" THEN 1 ELSE 0, NoBytes)
    /\ UNCHANGED <<store, pending, observers>>

\* The caller commits the handle it holds (commit(), or leaving a with block).
Commit(h) ==
    /\ handles[h].st = "open"
    /\ handles' = [handles EXCEPT ![h].st = "committed"]
    /\ last' = Result("commit", handles[h].doc, "ok", h, FALSE, 1, NoBytes)
    /\ UNCHANGED <<store, pending, txn, observers>>

\* What a callback given to transact does with the handle it receives.
Bodies == [edit : BOOLEAN, keep : BOOLEAN, commit : BOOLEAN, fail : BOOLEAN]

\* YDoc::transact: begin_transaction, call the callback with the wrapped
\* handle, set the cached reference to None, return the callback's result.
Transact(d, body) ==
    LET r == begin_transaction(d)
        kept == r.new /\ body.keep
        h == IF kept THEN FreshId ELSE r.h
        dropped == r.new /\ ~ body.keep
    IN  /\ IF r.ret = "panic"
           THEN /\ last' = Result("transact", d, "panic", Temp, FALSE, 0, NoBytes)
                /\ UNCHANGED <<store, txn, handles>>
           ELSE /\ kept => FreeIds # {}
                /\ body.edit => CanEdit(d)
                /\ store' = IF body.edit THEN [store EXCEPT ![d] = @ \cup {NewBlock(@, d)}]
                            ELSE store
                /\ handles' =
                     IF dropped THEN handles
                     ELSE [handles EXCEPT ![h] =
                              [doc |-> d, st |-> IF body.commit THEN "committed" ELSE "open"]]
                /\ txn' = [txn EXCEPT ![d] = None]
                /\ last' = Result("transact", d, IF body.fail THEN "raise" ELSE "ok", h, ~ r.new,
                                  IF body.commit \/ dropped THEN 1 ELSE 0, NoBytes)
        /\ UNCHANGED <<pending, observers>>

\* YDocInner::transact_mut: a mutation context of its own around f, which
\* here pushes onto the root text (e) or does nothing.
TransactMut(d, e) ==
    /\ IF ~ TryTransactMut(d)
       THEN /\ last' = Result("transact_mut", d, "panic", Temp, FALSE, 0, NoBytes)
            /\ UNCHANGED store
       ELSE /\ e => CanEdit(d)
            /\ store' = IF e THEN [store EXCEPT ![d] = @ \cup {NewBlock(@, d)}]
                        ELSE store
            /\ last' = Result("transact_mut", d, "ok", Temp, FALSE, 1, NoBytes)
    /\ UNCHANGED <<pending, txn, handles, observers>>

\* encode_state_vector whose handle, when it commits, discards the blocks
\* waiting for their dependencies.
EncodeStateVectorFlush(d) ==
    LET r == begin_transaction(d)
    IN  /\ r.ret = "ok"
        /\ txn' = CachedAfter(d, r)
        /\ pending' = [pending EXCEPT ![d] = {}]
        /\ last' = Result("encode_state_vector", d, "ok", r.h, ~ r.new, DropCommits(r),
                          encode_state_vector(store[d]))
        /\ UNCHANGED <<store, handles, observers>>

\* encode_state_vector(doc)
EncodeStateVector(d) ==
    LET r == begin_transaction(d)
    IN  /\ IF r.ret = "panic"
           THEN /\ last' = Result("encode_state_vector", d, "panic", Temp, FALSE, 0, NoBytes)
                /\ UNCHANGED txn
           ELSE /\ txn' = CachedAfter(d, r)
                /\ last' = Result("encode_state_vector", d, "ok", r.h, ~ r.new, DropCommits(r),
                                  encode_state_vector(store[d]))
        /\ UNCHANGED <<store, pending, handles, observers>>

\* encode_state_as_update(doc, vector)
EncodeStateAsUpdate(d, vector) ==
    LET r == begin_transaction(d)
        res == encode_state_as_update(store[d], vector)
    IN  /\ IF r.ret = "panic"
           THEN /\ last' = Result("encode_state_as_update", d, "panic", Temp, FALSE, 0, NoBytes)
                /\ UNCHANGED txn
           ELSE /\ txn' = CachedAfter(d, r)
                /\ last' = Result("encode_state_as_update", d, res.ret, r.h, ~ r.new,
                                  DropCommits(r), res.bytes)
        /\ UNCHANGED <<store, pending, handles, observers>>

\* apply_update(doc, diff)
ApplyUpdate(d, diff) ==
    LET r == begin_transaction(d)
        res == apply_update(store[d], pending[d], diff)
    IN  /\ IF r.ret = "panic"
           THEN /\ last' = Result("apply_update", d, "panic", Temp, FALSE, 0, NoBytes)
                /\ UNCHANGED <<store, pending, txn>>
           ELSE /\ store' = [store EXCEPT ![d] = res.store]
                /\ pending' = [pending EXCEPT ![d] = res.pending]
                /\ txn' = CachedAfter(d, r)
                /\ last' = Result("apply_update", d, res.ret, r.h, ~ r.new,
                                  DropCommits(r), diff)
        /\ UNCHANGED <<handles, observers>>

\* YDoc::observe_after_transaction: registering borrows the engine store,
\* and the unwrap panics while a mutation context is open.
ObserveAfterTransaction(d) ==
    /\ IF EngineBusy(d)
       THEN /\ last' = Result("observe_after_transaction", d, "panic", Temp, FALSE, 0, NoBytes)
            /\ UNCHANGED observers
       ELSE /\ observers[d] < MaxObservers
            /\ observers' = [observers EXCEPT ![d] = @ + 1]
            /\ last' = Result("observe_after_transaction", d, "ok", Temp, FALSE, 0, NoBytes)
    /\ UNCHANGED <<store, pending, txn, handles>>

(* ---------------------------- YText calls ----------------------------- *)
\* A call that commits nothing calls no observer: no callback fails and no
\* callback is given an event.
NoCalls == fired' = {} /\ pyerr' = <<>> /\ event' = <<>>

Chunks == {<<c>> : c \in Chars}
Offsets == 0..MaxOffset
Lengths == 1..MaxLen

\* t.insert(txn, index, chunk, attributes)
Insert(t, index, chunk, attributes) ==
    LET r == insert(ytext[t], index, chunk, attributes)
    IN  /\ Len(ytext[t].s) < MaxLen
        /\ ytext' = [ytext EXCEPT ![t] = r.v]
        /\ dirty' = Touch(t, r)
        /\ last' = Result("insert", 1, r.ret, Temp, FALSE, 0, NoBytes)
                        @@ [t |-> t, attributes |-> attributes]
        /\ NoCalls
        /\ UNCHANGED <<docvars, subs>>

\* A push that also records a change of the document's root text in the
\* transaction it was passed, whatever the text pushed to is.
PushThroughTxn(t, chunk) ==
    LET r == push(ytext[t], chunk)
    IN  /\ Len(ytext[t].s) < MaxLen
        /\ ytext' = [ytext EXCEPT ![t] = r.v]
        /\ dirty' = [dirty EXCEPT ![2] = IF @ = 0 THEN 1 ELSE 2]
        /\ last' = Result("push", 1, r.ret, Temp, FALSE, 0, NoBytes) @@ [t |-> t]
        /\ NoCalls
        /\ UNCHANGED <<docvars, subs>>

\* t.push(txn, chunk)
Push(t, chunk) ==
    LET r == push(ytext[t], chunk)
    IN  /\ Len(ytext[t].s) < MaxLen
        /\ ytext' = [ytext EXCEPT ![t] = r.v]
        /\ dirty' = Touch(t, r)
        /\ last' = Result("push", 1, r.ret, Temp, FALSE, 0, NoBytes) @@ [t |-> t]
        /\ NoCalls
        /\ UNCHANGED <<docvars, subs>>

\* t.delete(txn, index, length)
Delete(t, index, length) ==
    LET r == delete(ytext[t], index, length)
    IN  /\ ytext' = [ytext EXCEPT ![t] = r.v]
        /\ dirty' = Touch(t, r)
        /\ last' = Result("delete", 1, r.ret, Temp, FALSE, 0, NoBytes) @@ [t |-> t]
        /\ NoCalls
        /\ UNCHANGED <<docvars, subs>>

\* t.insert_embed(txn, index, embed, attributes)
InsertEmbed(t, index, embed, attributes) ==
    LET r == insert_embed(ytext[t], index, embed, attributes)
    IN  /\ Len(ytext[t].s) < MaxLen
        /\ ytext' = [ytext EXCEPT ![t] = r.v]
        /\ dirty' = Touch(t, r)
        /\ last' = Result("insert_embed", 1, r.ret, Temp, FALSE, 0, NoBytes)
                        @@ [t |-> t, attributes |-> attributes]
        /\ NoCalls
        /\ UNCHANGED <<docvars, subs>>

\* t.format(txn, index, length, attributes)
Format(t, index, length, attributes) ==
    LET r == format(ytext[t], index, length, attributes)
    IN  /\ ytext' = [ytext EXCEPT ![t] = r.v]
        /\ dirty' = Touch(t, r)
        /\ last' = Result("format", 1, r.ret, Temp, FALSE, 0, NoBytes)
                        @@ [t |-> t, attributes |-> attributes]
        /\ NoCalls
        /\ UNCHANGED <<docvars, subs>>

\* container.insert(txn, ..., t): the text is nested into a container; a
\* text just attached has no observer yet.
Attach(t) ==
    LET r == attach(ytext[t])
    IN  /\ ytext' = [ytext EXCEPT ![t] = r.v]
        /\ last' = Result("attach", 1, r.ret, Temp, FALSE, 0, NoBytes) @@ [t |-> t]
        /\ NoCalls
        /\ UNCHANGED <<docvars, subs, dirty>>

\* t.observe(f, deep)
Observe(t, deep, sub) ==
    LET r == observe(ytext[t], subs[t], deep, sub)
    IN  /\ Cardinality(subs[t].shallow) + Cardinality(subs[t].deep) < MaxSubs
        /\ sub \notin (IF deep THEN subs[t].deep ELSE subs[t].shallow)
        /\ subs' = [subs EXCEPT ![t] = r.reg]
        /\ last' = Result("observe", 1, r.ret, Temp, FALSE, 0, NoBytes)
                        @@ [t |-> t, sub |-> r.id, deep |-> deep]
        /\ NoCalls
        /\ UNCHANGED <<docvars, ytext, dirty>>

\* t.unobserve(subscription_id)
Unobserve(t, subscription_id) ==
    LET r == unobserve(ytext[t], subs[t], subscription_id)
    IN  /\ subs' = [subs EXCEPT ![t] = r.reg]
        /\ last' = Result("unobserve", 1, r.ret, Temp, FALSE, 0, NoBytes)
                        @@ [t |-> t, sub |-> subscription_id]
        /\ NoCalls
        /\ UNCHANGED <<docvars, ytext, dirty>>

\* The number of calls a commit makes to one callback registered on a text
\* the mutation context changed n times.
CallsPerCommit(n) == IF n > 0 THEN 1 ELSE 0

\* PyErr::restore: the error becomes the interpreter's error indicator, in
\* place of the one that was there.
restore(indicator, err) == <<err>>

(* ---------------------------- YTextEvent ------------------------------ *)
Fields == {"target", "path", "delta"}

\* YTextEvent::new: nothing is computed yet. computed[f] counts the times
\* the engine's event or transaction was consulted for field f, reads lists
\* the reads made and what each returned.
YTextEvent_new ==
    [target |-> "None", delta |-> "None", computed |-> [f \in Fields |-> 0],
     reads |-> <<>>]

\* A read of field f that returned value.
Read(e, f, value) == [e EXCEPT !.reads = Append(@, [f |-> f, value |-> value])]

\* A delta getter that never fills the cache.
DeltaUncached(e) ==
    Read([e EXCEPT !.computed["delta"] = @ + 1], "delta", "the delta")

\* YTextEvent::target
target(e) ==
    IF e.target # "None" THEN Read(e, "target", e.target)
    ELSE Read([e EXCEPT !.target = "the text", !.computed["target"] = @ + 1],
              "target", "the text")

\* YTextEvent::path
path(e) == Read([e EXCEPT !.computed["path"] = @ + 1], "path", "the path")

\* YTextEvent::delta
delta(e) ==
    IF e.delta # "None" THEN Read(e, "delta", e.delta)
    ELSE Read([e EXCEPT !.delta = "the delta", !.computed["delta"] = @ + 1],
              "delta", "the delta")

\* The reads a callback makes of its event, in order.
ReadSeqs == UNION {[1..n -> Fields] : n \in 0..MaxReads}
RECURSIVE ReadAll(_, _)
ReadAll(e, fs) ==
    IF fs = <<>> THEN e
    ELSE ReadAll(CASE Head(fs) = "target" -> target(e)
                   [] Head(fs) = "path" -> path(e)
                   [] Head(fs) = "delta" -> delta(e), Tail(fs))

\* The registrations a commit calls: those on the texts the mutation
\* context changed.
Called == {g \in UNION {Registered(t) : t \in TextIds} : dirty[g.t] > 0}

\* The caller commits the handle it passed to the calls above and begins
\* the next: the engine calls the observers of the texts that changed. The
\* callbacks in failing raise, and each closure restores its error; a
\* callback registered without deep is given a YTextEvent and reads it.
CommitText(fs, failing) ==
    /\ failing \subseteq Called
    /\ fired' = {[reg |-> g, n |-> CallsPerCommit(dirty[g.t]), err |-> g \in failing] :
                    g \in Called}
    /\ IF failing = {} THEN pyerr' = <<>>
       ELSE \E g \in failing : pyerr' = restore(pyerr, g)
    /\ IF \E g \in Called : ~ g.deep
       THEN event' = <<ReadAll(YTextEvent_new, fs)>>
       ELSE fs = <<>> /\ event' = <<>>
    /\ dirty' = [t \in TextIds |-> 0]
    /\ last' = Result("commit", 1, "ok", Temp, FALSE, 0, NoBytes) @@ [changed |-> dirty]
    /\ UNCHANGED <<docvars, ytext, subs>>

\* What a read through a pointer to released memory can do: find the old
\* value still there, find something else, or crash.
Dangling == {"value", "garbage", "crash"}

\* Event e after its read of f returned, and cached, what it found in
\* released memory.
Garbled(e, f) ==
    [e EXCEPT !.reads[Len(e.reads)].value = "garbage",
              !.target = IF f = "target" THEN "garbage" ELSE @,
              !.delta = IF f = "delta" THEN "garbage" ELSE @]

\* The caller reads field f of the event its callback kept, after the
\* commit that produced the event has returned: the engine's TextEvent and
\* the transaction the event points to are gone, so a getter that follows
\* the pointers reads released memory.
ReadKept(f) ==
    /\ event # <<>>
    /\ Len(event[1].reads) <= MaxReads
    /\ LET e == event[1]
           r == ReadAll(e, <<f>>)
           deref == r.computed[f] > e.computed[f]
       IN  \E outcome \in (IF deref THEN Dangling ELSE {"value"}) :
              /\ event' = CASE outcome = "value" -> <<r>>
                             [] outcome = "garbage" -> <<Garbled(r, f)>>
                             [] outcome = "crash" -> event
              /\ last' = Result(f, 1, IF outcome = "crash" THEN "crash" ELSE "ok",
                                Temp, FALSE, 0, NoBytes)
                             @@ [deref |-> deref, outcome |-> outcome]
    /\ fired' = {} /\ pyerr' = <<>>
    /\ UNCHANGED <<docvars, ytext, subs, dirty>>

(* --------------------------- change reports --------------------------- *)
\* The encoded delete set of a mutation context; no block is ever deleted.
EncodeDeleteSetV1 == [kind |-> "ds", items |-> {}, clocks |-> ZeroVector]

\* AfterTransactionEvent::new for a mutation context of d that found store
\* S0 and left S1: the four fields are encoded here, once.
AfterTransactionEvent_new(d, S0, S1) ==
    [doc |-> d,
     before_state |-> EncodeStateVectorV1(StateVector(S0)),
     after_state |-> EncodeStateVectorV1(StateVector(S1)),
     delete_set |-> EncodeDeleteSetV1,
     update |-> EncodeUpdateV1(S1 \ S0)]

\* A getter that encodes the document's state vector when it is read.
BeforeStateLive(r) == encode_state_vector(store[r.doc])

\* The getters of AfterTransactionEvent: a new reference to the same bytes.
before_state(r) == r.before_state
after_state(r) == r.after_state
delete_set(r) == r.delete_set
get_update(r) == r.update

Getters == {"before_state", "after_state", "delete_set", "get_update"}

\* The callback of an after-transaction observer of d, called by the commit
\* the step makes: it keeps the report it is given, or lets it go; once it
\* has kept one it lets the others go.
Retain(d) ==
    IF last'.doc = d /\ last'.fires > 0 /\ reports = <<>>
    THEN \E keep \in BOOLEAN :
            reports' = IF keep
                       THEN Append(reports, AfterTransactionEvent_new(d, store[d], store'[d]))
                       ELSE reports
    ELSE UNCHANGED reports

\* A later read of one field of a report the callback kept.
ReadReport(i, f) ==
    /\ i \in 1..Len(reports)
    /\ last' = Result(f, reports[i].doc, "ok", Temp, FALSE, 0,
                      CASE f = "before_state" -> before_state(reports[i])
                        [] f = "after_state" -> after_state(reports[i])
                        [] f = "delete_set" -> delete_set(reports[i])
                        [] f = "get_update" -> get_update(reports[i]))
    /\ UNCHANGED <<docvars, cbvars, ytext, subs, dirty, fired>>

(* ----------------------------- YDoc(...) ------------------------------ *)
\* YDoc(offset_kind = ...)
New(offset_kind) ==
    LET r == YDoc_new(offset_kind)
    IN  /\ made' = r
        /\ last' = Result("new", 1, r.ret, Temp, FALSE, 0, NoBytes)
        /\ UNCHANGED <<store, pending, txn, handles, observers, reports, okind, ytext,
                       subs, dirty, fired, pyerr, event>>

(* --------------------------- specifications --------------------------- *)
\* The handle lifecycle: callers begin, keep, commit and release handles,
\* run callbacks, register observers and call the protocol functions, on
\* documents nobody types into.
NextTxn ==
    \/ (\E d \in Docs : BeginTransaction(d)) /\ UNCHANGED ext
    \/ (\E h \in HandleIds : Release(h)) /\ UNCHANGED ext
    \/ (\E h \in HandleIds : Commit(h)) /\ UNCHANGED ext
    \/ (\E d \in Docs, body \in {b \in Bodies : ~ b.edit} : Transact(d, body)) /\ UNCHANGED ext
    \/ (\E d \in Docs : TransactMut(d, FALSE)) /\ UNCHANGED ext
    \/ (\E d \in Docs : EncodeStateVector(d)) /\ UNCHANGED ext
    \/ (\E d \in Docs : \E v \in VectorsFor(d) : EncodeStateAsUpdate(d, v)) /\ UNCHANGED ext
    \/ (\E d \in Docs, u \in Inbox : ApplyUpdate(d, u)) /\ UNCHANGED ext
    \/ (\E d \in Docs : ObserveAfterTransaction(d)) /\ UNCHANGED ext

SpecTxn == Init /\ [][NextTxn]_vars

\* Synchronization: callers type inside callbacks that keep no handle and
\* exchange state vectors and updates between the two documents.
NextSync ==
    \/ (\E d \in Docs, body \in {b \in Bodies : ~ b.keep /\ ~ b.commit /\ ~ b.fail} :
          Transact(d, body)) /\ UNCHANGED ext
    \/ (\E d \in Docs : TransactMut(d, TRUE)) /\ UNCHANGED ext
    \/ (\E d \in Docs : EncodeStateVector(d)) /\ UNCHANGED ext
    \/ (\E d \in Docs : \E v \in VectorsFor(d) : EncodeStateAsUpdate(d, v)) /\ UNCHANGED ext
    \/ (\E d \in Docs, u \in Inbox : ApplyUpdate(d, u)) /\ UNCHANGED ext

SpecSync == Init /\ [][NextSync]_vars

\* Change reports: documents with after-transaction observers are typed
\* into, a callback keeps a report, and its fields are read later and its
\* update is applied to the other document.
NextReport ==
    \/ (\E d \in Docs : ObserveAfterTransaction(d)) /\ UNCHANGED ext
    \/ \E d \in Docs : TransactMut(d, TRUE) /\ Retain(d) /\ UNCHANGED textvars
    \/ \E d \in Docs : EncodeStateVector(d) /\ Retain(d) /\ UNCHANGED textvars
    \/ \E d \in Docs, u \in Inbox : ApplyUpdate(d, u) /\ Retain(d) /\ UNCHANGED textvars
    \/ \E f \in Getters : ReadReport(1, f)

SpecReport == Init /\ [][NextReport]_vars

\* Texts: a Preliminary and an Integrated text are edited at every offset,
\* and attributes, formats, embeds and observers are offered to them at the
\* start of the text.
NextText ==
    \/ \E t \in TextIds, i \in Offsets, c \in Chunks : Insert(t, i, c, "None")
    \/ \E t \in TextIds, c \in Chunks, a \in Attributes \ {"None"} : Insert(t, 0, c, a)
    \/ \E t \in TextIds, c \in Chunks : Push(t, c)
    \/ \E t \in TextIds, i \in Offsets, n \in Lengths : Delete(t, i, n)
    \/ \E t \in {x \in TextIds : prelim(ytext[x])}, e \in Embeds, a \in Attributes :
          InsertEmbed(t, 0, e, a)
    \/ \E t \in TextIds, a \in Attributes \ {"None"} : Format(t, 0, 1, a)
    \/ \E t \in {x \in TextIds : prelim(ytext[x])}, deep \in BOOLEAN : Observe(t, deep, 0)
    \/ \E t \in {x \in TextIds : prelim(ytext[x])} : Unobserve(t, 0)
    \/ CommitText(<<>>, {})

SpecText == Init /\ [][NextText]_vars

\* Promotion: the texts are edited at their ends and attached to containers,
\* before and after they have been attached.
NextAttach ==
    \/ \E t \in TextIds, c \in Chunks : Push(t, c)
    \/ \E t \in TextIds, c \in Chunks : Insert(t, 0, c, "None")
    \/ \E t \in TextIds : Delete(t, 0, 1)
    \/ \E t \in TextIds : Attach(t)
    \/ CommitText(<<>>, {})

SpecAttach == Init /\ [][NextAttach]_vars

\* Observers: the Integrated text is edited and committed while observers
\* are registered on it and cancelled; callbacks fail, and read the events
\* they are given.
NextObs ==
    \/ Push(2, <<"a">>)
    \/ Delete(2, 0, 1)
    \/ \E deep \in BOOLEAN, id \in SubIds : Observe(2, deep, id)
    \/ \E id \in SubIds : Unobserve(2, id)
    \/ \E fs \in ReadSeqs : CommitText(fs, {})
    \/ \E failing \in SUBSET Called : CommitText(<<>>, failing)

SpecObs == Init /\ [][NextObs]_vars

\* Attributes: the Integrated text is given chunks, embeds and formats with
\* attributes that convert and attributes that do not.
NextAttrs ==
    \/ \E c \in Chunks : Push(2, c)
    \/ \E i \in Offsets, c \in Chunks, a \in Attributes : Insert(2, i, c, a)
    \/ \E i \in Offsets, e \in Embeds, a \in Attributes : InsertEmbed(2, i, e, a)
    \/ \E i \in Offsets, n \in Lengths, a \in Attributes \ {"None"} : Format(2, i, n, a)
    \/ Delete(2, 0, 1)
    \/ CommitText(<<>>, {})

SpecAttrs == Init /\ [][NextAttrs]_vars

\* Kept events: a callback registered on the Integrated text reads the
\* event it is given and keeps it, and the caller reads it after the commit.
NextKept ==
    \/ Push(2, <<"a">>)
    \/ Observe(2, FALSE, 0)
    \/ \E fs \in ReadSeqs : CommitText(fs, {})
    \/ \E f \in Fields : ReadKept(f)

SpecKept == Init /\ [][NextKept]_vars

\* Construction: documents are constructed with every token offered.
NextNew == \E k \in OffsetArgs : New(k)

SpecNew == Init /\ [][NextNew]_vars

(* ======================= the handle lifecycle ========================== *)
SyncOps == {"encode_state_vector", "encode_state_as_update", "apply_update"}

\* The handles of d that are live and uncommitted.
LiveHandles(d) == {h \in HandleIds : handles[h].doc = d /\ handles[h].st = "open"}

C3_TransactReleases ==
    (/\ last.op = "transact" /\ last.ret \in {"ok", "raise"}
     /\ (last.reused \/ last.h = Temp))
    => (/\ LiveHandles(last.doc) = {}
        /\ last.h \in HandleIds => handles[last.h].st # "open")

\* C9: when a document has a live uncommitted handle, the three protocol
\* functions work through that handle, and when they return it is still the
\* document's current handle and still uncommitted.
C9_SyncReusesLive ==
    (last.op \in SyncOps /\ LiveHandles(last.doc) # {})
    => (/\ last.ret # "panic"
        /\ last.reused
        /\ txn[last.doc] = last.h
        /\ handles[last.h].st = "open")

\* C10: every registered after-transaction observer is called exactly once
\* when a mutation context commits, and not otherwise: not by the calls
\* that were coalesced into a live handle, not again when a committed
\* handle is dropped.
C10_OncePerCommit ==
    [][\A d \in Docs :
          (last'.doc = d /\ last' # last) =>
             LET ended == {h \in LiveHandles(d) : handles'[h].st # "open"}
             IN  /\ ended # {} => last'.fires = observers[d]
                 /\ (ended = {} /\ last'.reused) => last'.fires = 0
                 /\ last'.ret = "panic" => last'.fires = 0
                 /\ last'.op \in {"begin_transaction", "observe_after_transaction"}
                       => last'.fires = 0
                 /\ (last'.op = "release" /\ handles[last'.h].st = "committed")
                       => last'.fires = 0
                 /\ last'.fires \in {0, observers[d]}]_vars

\* A handle that begin_transaction was called on has been released with an
\* observer registered, and the observer was called once.
C10_Witness ==
    /\ last.op = "release" /\ last.commits = 1 /\ last.fires = 1
    /\ observers[last.doc] = 1

(* ========================== synchronization ============================ *)
\* C4: applying a valid update a second time changes neither the content
\* nor the state vector the first application left.
C4_ApplyTwice ==
    [][\A d \in Docs :
          (/\ last.op = "apply_update" /\ last.doc = d /\ last.ret = "ok"
           /\ ApplyUpdate(d, last.bytes))
          => (/\ Content(store'[d]) = Content(store[d])
              /\ StateVector(store'[d]) = StateVector(store[d])
              /\ last'.ret = "ok")]_vars

\* An update that brought blocks has been applied a second time to a
\* document that has blocks of its own.
C4_Witness ==
    /\ last.op = "apply_update" /\ last.ret = "ok" /\ last.again
    /\ last.bytes.items # {} /\ last.bytes.items \subseteq store[last.doc]
    /\ StateVector(store[last.doc])[last.doc] > 0

\* The state A and B are in once A has imported B's full export, and B has
\* imported A's: the one taken after A's import (b1) or before it (b0).
AfterExchange(A, B) ==
    LET a1 == apply_update(store[A], pending[A],
                           encode_state_as_update(store[B], NoBytes).bytes)
        b1 == apply_update(store[B], pending[B],
                           encode_state_as_update(a1.store, NoBytes).bytes)
        b0 == apply_update(store[B], pending[B],
                           encode_state_as_update(store[A], NoBytes).bytes)
    IN  [a |-> a1, b1 |-> b1, b0 |-> b0]

\* C5: whatever the two documents hold, and whichever imports first, once
\* each has imported the other's full export their state vectors are equal.
C5_Converges ==
    \A A \in Docs : \A B \in Docs \ {A} :
        LET x == AfterExchange(A, B)
        IN  /\ x.a.ret = "ok" /\ x.b1.ret = "ok" /\ x.b0.ret = "ok"
            /\ StateVector(x.a.store) = StateVector(x.b1.store)
            /\ StateVector(x.a.store) = StateVector(x.b0.store)

\* Both documents typed concurrently, and an import has made them equal.
C5_Witness ==
    /\ last.op = "apply_update" /\ last.ret = "ok"
    /\ store[1] = store[2]
    /\ \A c \in Docs : \E i \in store[1] : i.id = <<c, 0>> /\ i.origin = NoId

\* The blocks of S that the vector bytes v (None: nothing) do not cover.
Uncovered(S, v) ==
    IF v.kind = "none" THEN S
    ELSE {i \in S : ~ (i.id[2] < DecodeStateVectorV1(v).clocks[i.id[1]])}

\* C6: an export holds exactly the blocks of the document that the given
\* state vector does not cover, all of them when none is given; so a fresh
\* document that imports a full export reads the same text, and a document
\* that imports the export made against its own state vector holds every
\* block the exporter holds.
C6_DiffExact ==
    /\ \A d \in Docs, v \in Vectors :
          LET res == encode_state_as_update(store[d], v)
          IN  v.kind \in {"none", "sv"} =>
                 /\ res.ret = "ok"
                 /\ DecodeUpdateV1(res.bytes).ok
                 /\ DecodeUpdateV1(res.bytes).items = Uncovered(store[d], v)
    /\ (last.op = "encode_state_as_update" /\ last.ret = "ok")
          => \E v \in Vectors : last.bytes = EncodeUpdateV1(Uncovered(store[last.doc], v))
    /\ \A d \in Docs :
          LET u == encode_state_as_update(store[d], NoBytes).bytes
          IN  Content(apply_update({}, {}, u).store) = Content(store[d])
    /\ \A A \in Docs, B \in Docs :
          LET u == encode_state_as_update(store[B], encode_state_vector(store[A])).bytes
          IN  store[B] \subseteq apply_update(store[A], pending[A], u).store

\* Document 2, which typed nothing, reads "ab" after importing the export
\* of document 1.
C6_Witness ==
    /\ last.op = "apply_update" /\ last.doc = 2 /\ last.ret = "ok"
    /\ StateVector(store[2])[2] = 0
    /\ Content(store[2]) = <<"a", "b">>
    /\ Content(store[1]) = <<"a", "b">>

\* C7: an import of bytes that are no update fails with a decode error and
\* leaves the document as it was; an import of an update succeeds and
\* leaves none of its blocks out (each is integrated or kept pending).
C7_AllOrNothing ==
    [][\A d \in Docs, u \in Inbox :
          ApplyUpdate(d, u) =>
             IF DecodeUpdateV1(u).ok
             THEN /\ last'.ret = "ok"
                  /\ u.items \subseteq store'[d] \cup pending'[d]
             ELSE /\ last'.ret = "DecodeError"
                  /\ store' = store /\ pending' = pending]_vars

\* Junk has been refused by a document that holds text.
C7_Witness ==
    /\ last.op = "apply_update" /\ last.ret = "DecodeError"
    /\ last.bytes.kind = "junk"
    /\ Content(store[last.doc]) # <<>>

\* C8: encode_state_vector changes no block, text or state vector of any
\* document, and called twice in a row it returns the same bytes.
C8_ReadOnly ==
    [][\A d \in Docs :
          EncodeStateVector(d) =>
             /\ store' = store /\ pending' = pending
             /\ (last.op = "encode_state_vector" /\ last.doc = d /\ last.ret = "ok")
                   => (last'.ret = "ok" /\ last'.bytes = last.bytes)]_vars

\* The state vector of a document that holds a block of its own and a
\* pending one has been exported twice in a row.
C8_Witness ==
    /\ last.op = "encode_state_vector" /\ last.ret = "ok" /\ last.again
    /\ last.bytes.clocks[last.doc] > 0
    /\ pending[last.doc] # {}

(* ============================ change reports =========================== *)
\* C11: the four fields of a change report are fixed when the report is
\* produced, before_state and after_state being the document's state vector
\* at the start and at the end of the reported mutation context; no later
\* call changes a report that was kept, and every later read of a field
\* returns the bytes encoded then.
C11_ReportImmutable ==
    [][/\ Len(reports') >= Len(reports)
       /\ \A i \in 1..Len(reports) : reports'[i] = reports[i]
       /\ Len(reports') > Len(reports) =>
             LET r == reports'[Len(reports')]
             IN  /\ r.before_state = encode_state_vector(store[r.doc])
                 /\ r.after_state = encode_state_vector(store'[r.doc])
       /\ \A i \in 1..Len(reports), f \in Getters :
             ReadReport(i, f) =>
                last'.bytes = reports[i][IF f = "get_update" THEN "update" ELSE f]]_vars

\* The before_state of a kept report has been read after a later mutation
\* context moved the document's state vector past the report's after_state.
C11_Witness ==
    /\ last.op = "before_state" /\ Len(reports) > 0
    /\ reports[1].before_state # reports[1].after_state
    /\ reports[1].after_state # encode_state_vector(store[reports[1].doc])
    /\ last.bytes = reports[1].before_state

(* ================================ texts ================================ *)
\* C12: a Preliminary and an Integrated text that hold the same string
\* (having been given the same inserts without attributes, pushes and
\* deletes) report the same __str__, __len__ and to_json, and any further
\* such operation has the same outcome on both.
C12_Parity ==
    \A t \in TextIds, u \in TextIds :
        (/\ prelim(ytext[t]) /\ ~ prelim(ytext[u])
         /\ YText_str(ytext[t]) = YText_str(ytext[u]))
        => /\ YText_len(ytext[t]) = YText_len(ytext[u])
           /\ to_json(ytext[t]) = to_json(ytext[u])
           /\ \A i \in Offsets, c \in Chunks :
                 LET p == insert(ytext[t], i, c, "None")
                     q == insert(ytext[u], i, c, "None")
                 IN  p.ret = q.ret /\ YText_str(p.v) = YText_str(q.v)
           /\ \A i \in Offsets, n \in Lengths :
                 LET p == delete(ytext[t], i, n)
                     q == delete(ytext[u], i, n)
                 IN  p.ret = q.ret /\ YText_str(p.v) = YText_str(q.v)

\* C13: on a Preliminary text, insert with attributes, insert_embed,
\* format, observe and unobserve fail with a type error, leave the string
\* as it was, leave the text Preliminary, and register or cancel no observer.
C13_PrelimRefuses ==
    \A t \in {x \in TextIds : prelim(ytext[x])} :
        LET v == ytext[t]
            Refused(r) == r.ret = "TypeError" /\ r.v = v
        IN  /\ \A i \in Offsets, c \in Chunks, a \in Attributes \ {"None"} :
                  Refused(insert(v, i, c, a))
            /\ \A i \in Offsets, e \in Embeds, a \in Attributes :
                  Refused(insert_embed(v, i, e, a))
            /\ \A i \in Offsets, n \in Lengths, a \in Attributes \ {"None"} :
                  Refused(format(v, i, n, a))
            /\ \A deep \in BOOLEAN, id \in SubIds :
                  LET r == observe(v, subs[t], deep, id)
                  IN  r.ret = "TypeError" /\ r.reg = subs[t]
            /\ \A id \in SubIds :
                  LET r == unobserve(v, subs[t], id)
                  IN  r.ret = "TypeError" /\ r.reg = subs[t]
            /\ (last.op \in {"observe", "unobserve"} /\ last.ret = "TypeError")
                  => subs[t] = NoSubs /\ dirty[t] = 0

\* observe has been refused by a Preliminary text that holds characters.
C13_Witness ==
    /\ last.op = "observe" /\ last.ret = "TypeError"
    /\ \E t \in TextIds : prelim(ytext[t]) /\ Len(ytext[t].s) = MaxLen

\* C14: an Integrated text never becomes Preliminary again, whatever is
\* called, and attaching an Integrated text is refused with a state error
\* and leaves the text as it was.
C14_PromotedOnce ==
    [][\A t \in TextIds :
          ~ prelim(ytext[t])
          => /\ ~ prelim(ytext'[t])
             /\ (last'.op = "attach" /\ last'.t = t)
                   => (last'.ret = "StateError" /\ ytext'[t] = ytext[t])]_vars

\* A text that was attached and pushed to is refused a second attach.
C14_Witness ==
    /\ last.op = "attach" /\ last.ret = "StateError" /\ last.t = 1
    /\ ~ prelim(ytext[1]) /\ Len(ytext[1].s) = MaxLen

(* ============================= observers ============================== *)
\* C15: unobserve(subscription) on an Integrated text cancels the
\* registration that subscription identifies, so that no later commit calls
\* it, and leaves every other registration on the text in place.
C15_CancelsExactly ==
    [][\A t \in TextIds :
          (last'.op = "unobserve" /\ last'.ret = "ok" /\ last'.t = t)
          => /\ \A g \in Registered(t)' : g.id # last'.sub
             /\ \A g \in Registered(t) : g.id # last'.sub => g \in Registered(t)']_vars

\* The calls the last commit made to registration g.
CallsTo(g) == {x \in fired : x.reg = g}

\* C16: observe on an Integrated text registers the callback, and a commit
\* calls each callback registered on a text exactly once if the
\* transaction changed the text, however often, and not at all if it did not.
C16_OncePerTransaction ==
    [][/\ (last'.op = "observe" /\ last'.ret = "ok")
            => [t |-> last'.t, deep |-> last'.deep, id |-> last'.sub]
                   \in Registered(2)' \cup Registered(1)'
       /\ last'.op = "commit"
            => \A t \in TextIds : \A g \in Registered(t) :
                  IF dirty[t] > 0
                  THEN \E x \in CallsTo(g)' : CallsTo(g)' = {x} /\ x.n = 1
                  ELSE CallsTo(g)' = {}]_vars

\* A transaction that changed the text twice has been committed and both
\* callbacks registered on the text have been called, once each.
C16_Witness ==
    /\ last.op = "commit" /\ last.changed[2] = 2
    /\ Cardinality(fired) = 2 /\ \A x \in fired : x.n = 1

\* C17: when callbacks fail during a commit, what the transaction wrote
\* stays as it is, and the failure of each callback that failed is in the
\* caller's error indicator when the commit returns.
C17_FailureReported ==
    [][last'.op = "commit"
          => /\ ytext' = ytext /\ store' = store
             /\ \A x \in fired' : x.err => \E i \in 1..Len(pyerr') : pyerr'[i] = x.reg]_vars

(* ============================ construction ============================ *)
\* Two characters that differ at most in letter case.
SameLetter(a, b) ==
    \/ a = b
    \/ \E k \in 1..Len(Uppers) : {a, b} = {Uppers[k], Lowers[k]}

\* Token str is the word, letter case and the characters in seps ignored.
Spells(str, word, seps) ==
    LET bare == SelectSeq(str, LAMBDA c : c \notin seps)
    IN  /\ Len(bare) = Len(word)
        /\ \A i \in 1..Len(word) : SameLetter(bare[i], word[i])

\* A token was passed and the constructor raised the error, making nothing.
Rejected == made.ret = "ValueError" /\ made.offset_kind = "none"

\* C18: (as stated) construction with an offset_kind token succeeds exactly
\* when the token, letter case and separators ignored, is one of bytes,
\* utf16, utf32; with any other token it raises and makes no document.
C18_Recognized ==
    (made # NotMade /\ made.arg.some)
    => LET Is(word) == Spells(made.arg.v, word, {"-", "_", " "})
       IN  IF \/ Is(<<"b", "y", "t", "e", "s">>)
              \/ Is(<<"u", "t", "f", "1", "6">>)
              \/ Is(<<"u", "t", "f", "3", "2">>)
           THEN made.ret = "ok"
           ELSE Rejected

\* C18: (amended) construction with an offset_kind token succeeds exactly
\* when the token, letter case and hyphens ignored, is one of utf8, utf16,
\* utf32, and the document then counts in bytes, UTF-16 units or UTF-32
\* units; with any other token it raises and makes no document.
C18_RecognizedUtf ==
    (made # NotMade /\ made.arg.some)
    => LET Is(word) == Spells(made.arg.v, word, {"-"})
       IN  CASE Is(<<"u", "t", "f", "8">>) -> made.ret = "ok" /\ made.offset_kind = "Bytes"
             [] Is(<<"u", "t", "f", "1", "6">>) -> made.ret = "ok" /\ made.offset_kind = "Utf16"
             [] Is(<<"u", "t", "f", "3", "2">>) -> made.ret = "ok" /\ made.offset_kind = "Utf32"
             [] OTHER -> Rejected

\* "UTF-16" has made a document that counts in UTF-16 units.
C18_Witness ==
    /\ made.arg = [some |-> TRUE, v |-> <<"U", "T", "F", "-", "1", "6">>]
    /\ made.ret = "ok" /\ made.offset_kind = "Utf16"

(* ========================== begin_transaction ========================= *)
\* The cached reference of d is absent, no longer resolves, or resolves to
\* a committed handle.
NoLiveCached(d) ==
    \/ txn[d] = None
    \/ ~ Upgrade(txn[d])
    \/ handles[txn[d]].st = "committed"

\* C19: begin_transaction returns no committed or released handle, and
\* when the cached reference is absent, no longer resolves or resolves to a
\* committed handle it opens a new mutation context, returns a fresh handle
\* and caches a reference to that handle.
C19_FreshHandle ==
    [][\A d \in Docs :
          (last'.op = "begin_transaction" /\ last'.doc = d)
          => /\ last'.ret = "ok" => handles'[last'.h].st = "open"
             /\ NoLiveCached(d)
                   => /\ last'.ret = "ok" /\ ~ last'.reused
                      /\ handles[last'.h].st = "free"
                      /\ txn'[d] = last'.h]_vars

(* ============================== events ================================ *)
\* The reads of field f the callback made of event e.
ReadsOf(e, f) == {i \in 1..Len(e.reads) : e.reads[i].f = f}

\* Field f of event e was computed from the engine's event at most once,
\* at its first read, and every read of it returned the same value.
ComputedOnce(e, f) ==
    /\ e.computed[f] = (IF ReadsOf(e, f) = {} THEN 0 ELSE 1)
    /\ \A i \in ReadsOf(e, f), j \in ReadsOf(e, f) : e.reads[i].value = e.reads[j].value

\* C20: (as stated) each of target, path and delta of an event is computed
\* at most once: the first read computes and caches it, later reads return
\* the cached value without consulting the engine's event again.
C20_EachFieldOnce ==
    \A i \in 1..Len(event) : \A f \in Fields : ComputedOnce(event[i], f)

\* C20: (amended) target and delta of an event are computed at most once,
\* at their first read, and later reads return the cached value; path is
\* computed from the engine's event at every read.
C20_TargetDeltaOnce ==
    \A i \in 1..Len(event) :
        /\ \A f \in {"target", "delta"} : ComputedOnce(event[i], f)
        /\ event[i].computed["path"] = Cardinality(ReadsOf(event[i], "path"))

\* A callback has read delta twice.
C20_Witness ==
    /\ event # <<>>
    /\ Cardinality(ReadsOf(event[1], "delta")) >= 2
    /\ event[1].computed["delta"] = 1

\* C21: a read of target, path or delta on an event the caller kept, made
\* after the commit that produced the event, returns without following the
\* event's pointers to the ended transaction or the engine's event record,
\* whether or not the callback had read the field.
C21_KeptEventValid ==
    last.op \in Fields => (~ last.deref /\ last.ret = "ok")

(* ============================ attributes ============================== *)
\* C22: insert, insert_embed and format on an Integrated text, given
\* attributes with a value that cannot be converted, fail with the
\* conversion error and leave the text as it was.
C22_BadAttributesRefused ==
    [][\A t \in TextIds :
          (/\ last'.op \in {"insert", "insert_embed", "format"}
           /\ last'.t = t /\ last'.attributes = "Err"
           /\ ~ prelim(ytext[t]))
          => (last'.ret = "TypeError" /\ ytext'[t] = ytext[t])]_vars

(* ========================= local and delegated ======================== *)
\* The last call was insert without attributes, push or delete on text t.
Edited(t) ==
    /\ last.op \in {"insert", "push", "delete"}
    /\ last.t = t
    /\ last.op = "insert" => last.attributes = "None"

\* C23: insert without attributes, push and delete on a Preliminary text
\* change that text's string at most: the documents, their state vectors,
\* the changes of the open transaction, the observers and the other texts
\* stay as they were, no observer is called and the text stays Preliminary;
\* on an Integrated text a call that returns has changed the text through
\* the transaction, and the text stays Integrated.
C23_PrelimLocal ==
    [][\A t \in TextIds :
          Edited(t)'
          => IF prelim(ytext[t])
             THEN /\ prelim(ytext'[t])
                  /\ store' = store /\ pending' = pending
                  /\ \A d \in Docs : StateVector(store'[d]) = StateVector(store[d])
                  /\ dirty' = dirty /\ subs' = subs /\ fired' = {}
                  /\ \A u \in TextIds \ {t} : ytext'[u] = ytext[u]
             ELSE /\ ~ prelim(ytext'[t])
                  /\ last'.ret = "ok" => dirty'[t] > 0
                  /\ \A u \in TextIds \ {t} : ytext'[u] = ytext[u]]_vars

\* The Preliminary text has been deleted from while the transaction held
\* one change of the Integrated text, and still holds just that one.
C23_Witness ==
    /\ last.op = "delete" /\ last.t = 1 /\ last.ret = "ok"
    /\ prelim(ytext[1])
    /\ dirty[2] = 1 /\ Len(ytext[2].s) > 0

(* ===================== commit point of apply_update =================== *)
\* C24: apply_update on a document without a live handle has released the
\* handle it acquired when it returns, so the update is committed and every
\* after-transaction observer has been called once; on a document whose
\* caller holds a live uncommitted handle it works through that handle,
\* which stays open, and commits and notifies nothing.
C24_CommitPoint ==
    [][\A d \in Docs :
          (last'.op = "apply_update" /\ last'.doc = d)
          => IF LiveHandles(d) = {}
             THEN /\ last'.ret # "panic"
                  /\ last'.commits = 1 /\ last'.fires = observers[d]
                  /\ LiveHandles(d)' = {}
             ELSE /\ last'.ret # "panic"
                  /\ last'.reused /\ last'.h \in LiveHandles(d)
                  /\ last'.commits = 0 /\ last'.fires = 0
                  /\ LiveHandles(d)' = LiveHandles(d)]_vars
====
